---- MODULE Spec2Model ----
(***************************************************************************)
(* Online signature verification: feature extraction (finite-difference    *)
(* derivatives, polar conversion, 1D/2D histograms), template generation,  *)
(* matching, and the enrollment/verification driver.                       *)
(*                                                                         *)
(* Numbers.  The program computes in binary floating point.  Here every    *)
(* real quantity is a fixed-point integer counted in units of 1/SCALE,     *)
(* with quotients and square roots rounded down.  Angles are the one       *)
(* exception: they are only ever compared with angular bin edges and       *)
(* subtracted from one another, so they are counted in degrees (PI = 180), *)
(* which is exact for the strokes drawn here.                              *)
(***************************************************************************)
EXTENDS Integers, Sequences, FiniteSets, TLC

VARIABLES
    \* FeatureExtractor.compute_derivatives under test
    d_data, d_max_order, d_result,
    \* FeatureExtractor._hist_1d / _hist_2d under test
    h_args, h_result,
    \* FeatureExtractor.process_signature under test
    s_X, s_Y, s_P, s_result,
    \* a TemplateGenerator, the caller's enrollment list, template and q, the
    \* pair generate_template returned, the last test vector and the last
    \* verify_signature call
    beta, enrolled_features, template, q, returned, test_feature, call,
    \* main(): program counter, number of USER1_ files in the data directory,
    \* their contents, loop index, and the files read so far
    pc, n_files, dataset, i, log

vars == <<d_data, d_max_order, d_result, h_args, h_result,
          s_X, s_Y, s_P, s_result,
          beta, enrolled_features, template, q, returned, test_feature, call,
          pc, n_files, dataset, i, log>>

derivVars == <<d_data, d_max_order, d_result>>
histVars  == <<h_args, h_result>>
sigVars   == <<s_X, s_Y, s_P, s_result>>
objVars   == <<beta, enrolled_features, template, q, returned, test_feature, call>>
mainVars  == <<pc, n_files, dataset, i, log>>

-----------------------------------------------------------------------------
(* Bounds of the model *)

MaxSeriesLen == 4
MaxOrder == 3
MaxPoints == 4
MaxHistLen == 3
MaxHist2Len == 2
MaxEnroll == 2

-----------------------------------------------------------------------------
(* Fixed-point arithmetic *)

SCALE == 1000

Abs(a) == IF a < 0 THEN 0 - a ELSE a

Min2(a, b) == IF a <= b THEN a ELSE b

RECURSIVE SumRange(_, _, _)
SumRange(s, lo, hi) ==
    IF lo > hi THEN 0
    ELSE IF lo = hi THEN s[lo]
    ELSE LET mid == (lo + hi) \div 2
         IN  SumRange(s, lo, mid) + SumRange(s, mid + 1, hi)

SumSeq(s) == SumRange(s, 1, Len(s))

RECURSIVE SqrtSearch(_, _, _)
SqrtSearch(n, lo, hi) ==
    IF lo >= hi THEN lo
    ELSE LET mid == (lo + hi + 1) \div 2
         IN  IF mid * mid <= n THEN SqrtSearch(n, mid, hi)
                               ELSE SqrtSearch(n, lo, mid - 1)

\* floor of the square root of n >= 0
ISqrt(n) == SqrtSearch(n, 0, Min2(n, 46340))

\* a[:k] and a[k:] of Python, for 0 <= k
Take(a, k) == SubSeq(a, 1, Min2(k, Len(a)))
Drop(a, k) == SubSeq(a, Min2(k, Len(a)) + 1, Len(a))

Zeros(n) == [j \in 1..n |-> 0]

\* an integer of the program as a fixed-point real
Fx(a) == a * SCALE

FxSeq(s) == [j \in 1..Len(s) |-> Fx(s[j])]

-----------------------------------------------------------------------------
(* FeatureExtractor.compute_derivatives *)

forward_diff_reversed(current) ==
    [j \in 1..(Len(current) - 1) |-> current[j] - current[j + 1]]

\* line 29: [current[i+1] - current[i] for i in range(len(current)-1)]
forward_diff(current) ==
    [j \in 1..(Len(current) - 1) |-> current[j + 1] - current[j]]

RECURSIVE derivatives_loop(_, _, _, _)
derivatives_loop(derivatives, current, k, max_order) ==
    IF k > max_order THEN derivatives
    ELSE LET deriv == forward_diff(current)
         IN  derivatives_loop(derivatives @@ (k :> deriv), deriv, k + 1, max_order)

\* the dict of derivatives, orders 1..max_order
compute_derivatives(data, max_order) ==
    derivatives_loop(<<>>, data, 1, max_order)

\* dict.get(k, [])
dict_get(d, k) == IF k \in DOMAIN d THEN d[k] ELSE <<>>

-----------------------------------------------------------------------------
(* FeatureExtractor.compute_polar_coords *)

PI == 180

\* math.atan2(y, x) in degrees, for fixed-point x, y in {-SCALE, 0, SCALE}
atan2(y, x) ==
    CASE y = 0 /\ x >= 0 -> 0
      [] y = 0 /\ x < 0  -> 180
      [] y > 0 /\ x > 0  -> 45
      [] y > 0 /\ x = 0  -> 90
      [] y > 0 /\ x < 0  -> 135
      [] y < 0 /\ x > 0  -> 0 - 45
      [] y < 0 /\ x = 0  -> 0 - 90
      [] y < 0 /\ x < 0  -> 0 - 135

\* math.hypot(x, y) of fixed-point x, y
hypot(x, y) == ISqrt(x * x + y * y)

\* zip() stops at the shorter sequence
compute_polar_coords(x_deriv, y_deriv) ==
    LET n == Min2(Len(x_deriv), Len(y_deriv))
    IN  [radius |-> [j \in 1..n |-> hypot(x_deriv[j], y_deriv[j])],
         angle  |-> [j \in 1..n |-> atan2(y_deriv[j], x_deriv[j])]]

-----------------------------------------------------------------------------
(* FeatureExtractor._hist_1d and _hist_2d *)

\* A call either returns a vector or raises; err is TRUE when it raises.
Returned(v) == [err |-> FALSE, v |-> v]
Raised == [err |-> TRUE, v |-> <<>>]

\* np.mean and np.std (population) of a non-empty fixed-point sequence
np_mean(data) == SumSeq(data) \div Len(data)

np_std(data) ==
    LET mu == np_mean(data)
    IN  ISqrt(SumSeq([j \in 1..Len(data) |-> (data[j] - mu) * (data[j] - mu)])
              \div Len(data))

\* np.linspace(lo, hi, bins + 1)[j] times bins, j = 0..bins
edge_times_bins(j, bins, lo, hi) == lo * bins + j * (hi - lo)

\* the edges increase monotonically (numpy raises ValueError otherwise)
edges_ok(lo, hi) == lo <= hi

\* np.histogram with explicit edges: cumulative counts by searchsorted, the
\* first bins edges with side='left', the last one with side='right'.
cum_count_open_last(data, j, bins, lo, hi) ==
    Cardinality({p \in 1..Len(data) :
                    data[p] * bins < edge_times_bins(j, bins, lo, hi)})

cum_count(data, j, bins, lo, hi) ==
    IF j < bins
    THEN Cardinality({p \in 1..Len(data) :
                        data[p] * bins < edge_times_bins(j, bins, lo, hi)})
    ELSE Cardinality({p \in 1..Len(data) :
                        data[p] * bins <= edge_times_bins(j, bins, lo, hi)})

np_histogram(data, bins, lo, hi) ==
    [j \in 1..bins |-> cum_count(data, j, bins, lo, hi)
                       - cum_count(data, j - 1, bins, lo, hi)]

\* hist / len(data)
relative_freq(hist, n) == [j \in 1..Len(hist) |-> Fx(hist[j]) \div n]

absolute_freq(hist) == [j \in 1..Len(hist) |-> Fx(hist[j])]

hist_1d_empty_raw(bins) == <<>>

\* lines 66-67: np.zeros(bins)
hist_1d_empty(bins) == Zeros(bins)

hist_1d(data, bins, min_val, max_val, freq_type, sigma_factor) ==
    IF data = <<>> THEN Returned(hist_1d_empty(bins))
    ELSE LET mu    == np_mean(data)
             sigma == np_std(data)
             lo    == IF sigma_factor > 0 THEN mu - sigma_factor * sigma ELSE min_val
             hi    == IF sigma_factor > 0 THEN mu + sigma_factor * sigma ELSE max_val
         IN  IF ~edges_ok(lo, hi) THEN Raised
             ELSE LET hist == np_histogram(data, bins, lo, hi)
                  IN  IF freq_type = "relative" /\ Len(data) > 0
                      THEN Returned(relative_freq(hist, Len(data)))
                      ELSE Returned(absolute_freq(hist))

\* np.histogramdd: searchsorted(edges, v, side='right'), a value on the last
\* edge moved into the last bin; 1..bins are the bins, 0 and bins+1 outliers.
bin_index(v, bins, lo, hi) ==
    LET c == Cardinality({j \in 0..bins :
                            edge_times_bins(j, bins, lo, hi) <= v * bins})
    IN  IF v * bins = edge_times_bins(bins, bins, lo, hi) THEN c - 1 ELSE c

\* np.bincount over the flattened bin indices; index 0 marks an outlier
RECURSIVE bincount(_, _, _)
bincount(hist, flat, p) ==
    IF p > Len(flat) THEN hist
    ELSE bincount(IF flat[p] = 0 THEN hist
                  ELSE [hist EXCEPT ![flat[p]] = @ + 1], flat, p + 1)

\* np.histogram2d(x, y, bins=[x_edges, y_edges]).flatten(), row-major
np_histogram2d(x, y, x_bins, y_bins, x_lo, x_hi, y_lo, y_hi) ==
    LET flat == [p \in 1..Len(x) |->
                   LET ix == bin_index(x[p], x_bins, x_lo, x_hi)
                       iy == bin_index(y[p], y_bins, y_lo, y_hi)
                   IN  IF ix \in 1..x_bins /\ iy \in 1..y_bins
                       THEN (ix - 1) * y_bins + iy ELSE 0]
    IN  bincount(Zeros(x_bins * y_bins), flat, 1)

hist_2d(x, y, x_bins, y_bins, x_min, x_max, y_min, y_max, x_sigma, y_sigma, freq_type) ==
    IF x = <<>> \/ y = <<>> THEN Returned(Zeros(x_bins * y_bins))
    ELSE LET x_lo == IF x_sigma > 0 THEN np_mean(x) - x_sigma * np_std(x) ELSE x_min
             x_hi == IF x_sigma > 0 THEN np_mean(x) + x_sigma * np_std(x) ELSE x_max
             y_lo == IF y_sigma > 0 THEN np_mean(y) - y_sigma * np_std(y) ELSE y_min
             y_hi == IF y_sigma > 0 THEN np_mean(y) + y_sigma * np_std(y) ELSE y_max
         IN  IF Len(x) # Len(y) \/ ~edges_ok(x_lo, x_hi) \/ ~edges_ok(y_lo, y_hi)
             THEN Raised
             ELSE LET hist == np_histogram2d(x, y, x_bins, y_bins,
                                             x_lo, x_hi, y_lo, y_hi)
                  IN  IF freq_type = "relative" /\ Len(x) > 0
                      THEN Returned(relative_freq(hist, Len(x)))
                      ELSE Returned(absolute_freq(hist))

-----------------------------------------------------------------------------
(* FeatureExtractor.__init__ and process_signature *)

angle_bins == 20
speed_bins == 10
coord_bins == 20
pressure_bins == 10

RECURSIVE Flatten(_)
Flatten(blocks) ==
    IF blocks = <<>> THEN <<>> ELSE Head(blocks).v \o Flatten(Tail(blocks))

\* feature_vector.extend(hist) for each block in turn; a block that raises
\* ends the call.
extend_all(blocks) ==
    IF \E b \in 1..Len(blocks) : blocks[b].err THEN Raised
    ELSE Returned(Flatten(blocks))

\* lines 197-214: one (angle_data, speed_data) pair, both halves
angle_speed_blocks(angle_data0, speed_data0) ==
    LET min_len    == Min2(Len(angle_data0), Len(speed_data0))
        angle_data == Take(angle_data0, min_len)
        speed_data == Take(speed_data0, min_len)
        split      == min_len \div 2
    IN  << hist_2d(Take(angle_data, split), Take(speed_data, split),
                   angle_bins, speed_bins, 0 - PI, PI, 0, 0, 0, 3, "relative"),
           hist_2d(Drop(angle_data, split), Drop(speed_data, split),
                   angle_bins, speed_bins, 0 - PI, PI, 0, 0, 0, 3, "relative") >>

\* lines 187-194: one (x, y) pair of coordinate derivatives
coord_pair_block(x, y) ==
    LET min_len == Min2(Len(x), Len(y))
    IN  hist_2d(Take(x, min_len), Take(y, min_len),
                coord_bins \div 2, coord_bins \div 2, 0, 0, 0, 0, 3, 3, "relative")

\* lines 217-229: one pressure derivative, both halves
pressure_blocks(p_data, bins, freq_type) ==
    IF p_data = <<>> THEN << Returned(Zeros(bins * 2)) >>
    ELSE LET split == Len(p_data) \div 2
         IN  << hist_1d(Take(p_data, split), bins, 0, 0, freq_type, 3),
                hist_1d(Drop(p_data, split), bins, 0, 0, freq_type, 3) >>

\* The intermediate series of process_signature, lines 140-177.
signature_series(X, Y, P) ==
    LET x_derivs == compute_derivatives(FxSeq(X), 2)
        y_derivs == compute_derivatives(FxSeq(Y), 2)
        p_derivs == compute_derivatives(FxSeq(P), 2)
        x1 == dict_get(x_derivs, 1)
        x2 == dict_get(x_derivs, 2)
        y1 == dict_get(y_derivs, 1)
        y2 == dict_get(y_derivs, 2)
        polar1 == IF x1 # <<>> /\ y1 # <<>> THEN compute_polar_coords(x1, y1)
                  ELSE [radius |-> <<>>, angle |-> <<>>]
        polar2 == IF x2 # <<>> /\ y2 # <<>> THEN compute_polar_coords(x2, y2)
                  ELSE [radius |-> <<>>, angle |-> <<>>]
        theta1 == polar1.angle
        phi_d  == forward_diff(theta1)
    IN  [x1 |-> x1, x2 |-> x2, y1 |-> y1, y2 |-> y2,
         p1 |-> dict_get(p_derivs, 1), p2 |-> dict_get(p_derivs, 2),
         r1 |-> polar1.radius, theta1 |-> theta1, r2 |-> polar2.radius,
         theta2_deriv |-> IF Len(theta1) > 1 THEN forward_diff(theta1) ELSE <<>>,
         phi_d2 |-> IF Len(phi_d) > 1 THEN forward_diff(phi_d) ELSE <<>>,
         theta1_valid |-> IF Len(theta1) >= 2 THEN Take(theta1, Len(theta1) - 2)
                          ELSE <<>>]

\* The blocks in the order they are appended, lines 155-229.
signature_blocks(X, Y, P) ==
    LET s == signature_series(X, Y, P)
    IN  << hist_1d(s.theta1, angle_bins, 0 - PI, PI, "relative", 0),
           hist_1d(s.theta2_deriv, angle_bins, 0 - PI, PI, "relative", 0),
           hist_2d(s.theta1_valid, s.phi_d2, angle_bins, angle_bins,
                   0 - PI, PI, 0 - PI, PI, 0, 0, "absolute"),
           hist_1d(s.r1, speed_bins, 0, 0, "absolute", 3),
           hist_1d(s.r2, speed_bins, 0, 0, "absolute", 3),
           hist_1d(s.x1, coord_bins, 0, 0, "relative", 3),
           hist_1d(s.y1, coord_bins, 0, 0, "relative", 3),
           hist_1d(s.x2, coord_bins, 0, 0, "relative", 3),
           hist_1d(s.y2, coord_bins, 0, 0, "relative", 3),
           coord_pair_block(s.x1, s.x2),
           coord_pair_block(s.y1, s.y2) >>
        \o angle_speed_blocks(s.theta1, s.r1)
        \o angle_speed_blocks(s.theta2_deriv, s.r2)
        \o angle_speed_blocks(s.theta1, s.r2)
        \o pressure_blocks(s.p1, pressure_bins, "absolute")
        \o pressure_blocks(s.p2, pressure_bins, "relative")

process_signature(X, Y, P) == extend_all(signature_blocks(X, Y, P))

-----------------------------------------------------------------------------
(* Inputs *)

SeqsUpTo(S, n) == UNION {[1..m -> S] : m \in 0..n}

SeriesVals == {0, 1, 3}

\* coordinates and pressures of a stroke sample
Coords == {0, 1}

\* 0 1 0 1 ... and 0 0 ... 1 1 of length n
Alternating(n) == [j \in 1..n |-> (j + 1) % 2]
Ramp(n) == [j \in 1..n |-> IF 2 * j <= n THEN 0 ELSE 1]
Pressures(n) == {Alternating(n), Ramp(n)}

NotCalled == [called |-> FALSE, err |-> FALSE, v |-> <<>>]
Outcome(r) == [called |-> TRUE, err |-> r.err, v |-> r.v]

DerivIdle == d_data = <<>> /\ d_max_order = 0 /\ d_result = NotCalled
HistIdle  == h_args = <<>> /\ h_result = NotCalled
SigIdle   == s_X = <<>> /\ s_Y = <<>> /\ s_P = <<>> /\ s_result = NotCalled
NotGenerated == [called |-> FALSE, err |-> FALSE, template |-> <<>>, q |-> <<>>]
NoCall == [op |-> "none", err |-> FALSE, score |-> 0,
           a_test |-> <<>>, a_template |-> <<>>, a_q |-> <<>>]

ObjIdle   == /\ beta = 0 /\ enrolled_features = <<>> /\ template = <<>> /\ q = <<>>
             /\ returned = NotGenerated /\ test_feature = <<>> /\ call = NoCall
MainIdle  == pc = "idle" /\ n_files = 0 /\ dataset = 0 /\ i = 0 /\ log = <<>>

-----------------------------------------------------------------------------
(* compute_derivatives applied to a drawn series *)

InitDeriv ==
    /\ d_data \in SeqsUpTo(SeriesVals, MaxSeriesLen)
    /\ d_max_order \in 0..MaxOrder
    /\ d_result = NotCalled
    /\ HistIdle /\ SigIdle /\ ObjIdle /\ MainIdle

CallDerivatives ==
    /\ ~d_result.called
    /\ d_result' = Outcome(Returned(compute_derivatives(d_data, d_max_order)))
    /\ UNCHANGED <<d_data, d_max_order, histVars, sigVars, objVars, mainVars>>

NextDeriv == CallDerivatives

SpecDeriv == InitDeriv /\ [][NextDeriv]_vars

-----------------------------------------------------------------------------
(* process_signature applied to a drawn stroke sample *)

InitSig ==
    /\ \E n \in 0..MaxPoints :
          /\ s_X \in [1..n -> Coords]
          /\ s_Y \in [1..n -> Coords]
          /\ s_P \in Pressures(n)
    /\ s_result = NotCalled
    /\ DerivIdle /\ HistIdle /\ ObjIdle /\ MainIdle

CallProcessSignature ==
    /\ ~s_result.called
    /\ s_result' = Outcome(process_signature(s_X, s_Y, s_P))
    /\ UNCHANGED <<s_X, s_Y, s_P, derivVars, histVars, objVars, mainVars>>

NextSig == CallProcessSignature

SpecSig == InitSig /\ [][NextSig]_vars

-----------------------------------------------------------------------------
(* _hist_1d and _hist_2d applied to drawn data *)

HistVals  == {Fx(0 - 1), Fx(0), Fx(1), Fx(2), Fx(3)}
HistValsY == {Fx(0), Fx(1), Fx(3)}
HistBins  == {1, 2, 3}
HistRanges == {<<Fx(0), Fx(2)>>, <<Fx(1), Fx(1)>>}
FreqTypes == {"absolute", "relative"}

InitHist ==
    /\ \/ \E data \in SeqsUpTo(HistVals, MaxHistLen), bins \in HistBins,
             r \in HistRanges, f \in FreqTypes, sg \in {0, 3} :
             h_args = [dim |-> 1, x |-> data, y |-> <<>>,
                       x_bins |-> bins, y_bins |-> 1,
                       x_min |-> r[1], x_max |-> r[2], y_min |-> 0, y_max |-> 0,
                       x_sigma |-> sg, y_sigma |-> 0, freq_type |-> f]
       \/ \E n \in 0..MaxHist2Len :
             \E x \in [1..n -> HistVals], y \in [1..n -> HistValsY],
                f \in FreqTypes, sg \in {<<0, 0>>, <<0, 3>>, <<3, 3>>} :
                h_args = [dim |-> 2, x |-> x, y |-> y, x_bins |-> 2, y_bins |-> 3,
                          x_min |-> Fx(0), x_max |-> Fx(2),
                          y_min |-> Fx(0), y_max |-> Fx(3),
                          x_sigma |-> sg[1], y_sigma |-> sg[2], freq_type |-> f]
    /\ h_result = NotCalled
    /\ DerivIdle /\ SigIdle /\ ObjIdle /\ MainIdle

CallHist1d ==
    /\ ~h_result.called /\ h_args.dim = 1
    /\ h_result' = Outcome(hist_1d(h_args.x, h_args.x_bins, h_args.x_min,
                                   h_args.x_max, h_args.freq_type, h_args.x_sigma))
    /\ UNCHANGED <<h_args, derivVars, sigVars, objVars, mainVars>>

CallHist2d ==
    /\ ~h_result.called /\ h_args.dim = 2
    /\ h_result' = Outcome(hist_2d(h_args.x, h_args.y, h_args.x_bins, h_args.y_bins,
                                   h_args.x_min, h_args.x_max,
                                   h_args.y_min, h_args.y_max,
                                   h_args.x_sigma, h_args.y_sigma, h_args.freq_type))
    /\ UNCHANGED <<h_args, derivVars, sigVars, objVars, mainVars>>

NextHist == CallHist1d \/ CallHist2d

SpecHist == InitHist /\ [][NextHist]_vars

\* The range in force on one axis: the given one, or mean -+ sigma * std.
RangeLo(data, given, sg) ==
    IF sg > 0 /\ data # <<>> THEN np_mean(data) - sg * np_std(data) ELSE given
RangeHi(data, given, sg) ==
    IF sg > 0 /\ data # <<>> THEN np_mean(data) + sg * np_std(data) ELSE given

InRange(v, lo, hi) == lo <= v /\ v <= hi

\* v lies in the j-th of bins equal-width intervals of [lo, hi]: half-open,
\* except the last, which is closed.
InBin(v, j, bins, lo, hi) ==
    /\ lo * bins + (j - 1) * (hi - lo) <= v * bins
    /\ \/ v * bins < lo * bins + j * (hi - lo)
       \/ j = bins /\ v = hi

\* C6, one dimension: each in-range point is counted in exactly one bin, a
\* point on the upper boundary in the last one, and each out-of-range point in
\* none; absolute output sums to the number of in-range points; relative
\* output is the count over len(data), summing to 1 (within the rounding of
\* the quotients) when nothing is out of range; empty data gives zeros.
Hist1dCounts ==
    LET a    == h_args
        out  == h_result.v
        n    == Len(a.x)
        lo   == RangeLo(a.x, a.x_min, a.x_sigma)
        hi   == RangeHi(a.x, a.x_max, a.x_sigma)
        cnt(j) == Cardinality({p \in 1..n : InBin(a.x[p], j, a.x_bins, lo, hi)})
        inr  == Cardinality({p \in 1..n : InRange(a.x[p], lo, hi)})
    IN  /\ ~h_result.err
        /\ Len(out) = a.x_bins
        /\ \A p \in 1..n :
              Cardinality({j \in 1..a.x_bins : InBin(a.x[p], j, a.x_bins, lo, hi)})
                 = IF InRange(a.x[p], lo, hi) THEN 1 ELSE 0
        /\ \A p \in 1..n : a.x[p] = hi => InBin(a.x[p], a.x_bins, a.x_bins, lo, hi)
        /\ n = 0 => out = Zeros(a.x_bins)
        /\ a.freq_type = "absolute" =>
              /\ \A j \in 1..a.x_bins : out[j] = Fx(cnt(j))
              /\ SumSeq(out) = Fx(inr)
        /\ (a.freq_type = "relative" /\ n > 0) =>
              /\ \A j \in 1..a.x_bins : out[j] = Fx(cnt(j)) \div n
              /\ inr = n => (SCALE - a.x_bins < SumSeq(out) /\ SumSeq(out) <= SCALE)

\* C6, two dimensions: the same, a point being in range when it is on both axes.
Hist2dCounts ==
    LET a    == h_args
        out  == h_result.v
        n    == Len(a.x)
        x_lo == RangeLo(a.x, a.x_min, a.x_sigma)
        x_hi == RangeHi(a.x, a.x_max, a.x_sigma)
        y_lo == RangeLo(a.y, a.y_min, a.y_sigma)
        y_hi == RangeHi(a.y, a.y_max, a.y_sigma)
        In(p, jx, jy) == /\ InBin(a.x[p], jx, a.x_bins, x_lo, x_hi)
                         /\ InBin(a.y[p], jy, a.y_bins, y_lo, y_hi)
        cnt(jx, jy) == Cardinality({p \in 1..n : In(p, jx, jy)})
        inr  == Cardinality({p \in 1..n : /\ InRange(a.x[p], x_lo, x_hi)
                                          /\ InRange(a.y[p], y_lo, y_hi)})
        cells == (1..a.x_bins) \X (1..a.y_bins)
    IN  /\ ~h_result.err
        /\ Len(out) = a.x_bins * a.y_bins
        /\ \A p \in 1..n :
              Cardinality({c \in cells : In(p, c[1], c[2])})
                 = IF InRange(a.x[p], x_lo, x_hi) /\ InRange(a.y[p], y_lo, y_hi)
                   THEN 1 ELSE 0
        /\ n = 0 => out = Zeros(a.x_bins * a.y_bins)
        /\ a.freq_type = "absolute" =>
              /\ \A c \in cells :
                    out[(c[1] - 1) * a.y_bins + c[2]] = Fx(cnt(c[1], c[2]))
              /\ SumSeq(out) = Fx(inr)
        /\ (a.freq_type = "relative" /\ n > 0) =>
              /\ \A c \in cells :
                    out[(c[1] - 1) * a.y_bins + c[2]] = Fx(cnt(c[1], c[2])) \div n
              /\ inr = n => (SCALE - a.x_bins * a.y_bins < SumSeq(out)
                             /\ SumSeq(out) <= SCALE)

\* C6: both histograms count every in-range point exactly once and drop the rest.
C6_HistogramCounts ==
    h_result.called => IF h_args.dim = 1 THEN Hist1dCounts ELSE Hist2dCounts

\* A 1D absolute histogram over a given range was taken of data holding a point
\* on the upper boundary, a point above it and a point below the range.
C6_Witness ==
    /\ h_result.called /\ h_args.dim = 1 /\ h_args.x_sigma = 0
    /\ h_args.freq_type = "absolute" /\ h_args.x_bins = 3
    /\ h_args.x_min < h_args.x_max
    /\ \E p \in 1..Len(h_args.x) : h_args.x[p] = h_args.x_max
    /\ \E p \in 1..Len(h_args.x) : h_args.x[p] > h_args.x_max
    /\ \E p \in 1..Len(h_args.x) : h_args.x[p] < h_args.x_min
    /\ h_result.v[3] = Fx(1)
    /\ SumSeq(h_result.v) = Fx(1)

-----------------------------------------------------------------------------
(* Properties of compute_derivatives and process_signature *)

\* C7: for every order k in 1..max_order the result holds, under k, the first
\* difference of the order k-1 sequence (order 0 being the input), of length
\* N - k when N >= k + 1 and empty otherwise; the call does not fail.
C7_Derivatives ==
    d_result.called =>
        /\ ~d_result.err
        /\ DOMAIN d_result.v = 1..d_max_order
        /\ \A k \in 1..d_max_order :
              LET prev == IF k = 1 THEN d_data ELSE d_result.v[k - 1]
                  cur  == d_result.v[k]
                  N    == Len(d_data)
              IN  /\ Len(cur) = IF N >= k + 1 THEN N - k ELSE 0
                  /\ \A j \in 1..Len(cur) : cur[j] = prev[j + 1] - prev[j]

\* Derivatives up to order 3 of a four-point series with a non-zero third
\* difference were computed.
C7_Witness ==
    /\ d_result.called /\ d_max_order = 3 /\ Len(d_data) = 4
    /\ Len(d_result.v[1]) = 3 /\ Len(d_result.v[2]) = 2 /\ Len(d_result.v[3]) = 1
    /\ d_result.v[3][1] # 0

\* The 21 histograms of the 16 groups, in order: 20, 20, 400, 10, 10, 4 x 20,
\* 2 x 100, 6 x 200, 4 x 10.
BlockSizes == <<20, 20, 400, 10, 10, 20, 20, 20, 20, 100, 100,
                200, 200, 200, 200, 200, 200, 10, 10, 10, 10>>

BlockOffset(b) == SumSeq(Take(BlockSizes, b - 1))

Block(v, b) == SubSeq(v, BlockOffset(b) + 1, BlockOffset(b) + BlockSizes[b])

\* The number of data points each histogram is taken of, for a stroke of n points.
BlockPoints(n) ==
    LET L1 == IF n >= 1 THEN n - 1 ELSE 0
        L2 == IF n >= 2 THEN n - 2 ELSE 0
        L3 == IF n >= 3 THEN n - 3 ELSE 0
        A1 == L1 \div 2
        B1 == L1 - A1
        A2 == L2 \div 2
        B2 == L2 - A2
    IN  <<L1, L2, L3, L1, L2, L1, L1, L2, L2, L2, L2,
          A1, B1, A2, B2, A2, B2, A1, B1, A2, B2>>

\* The histograms no point of which can fall out of range: all but those over
\* angle differences.
NeverOutOfRange == (1..21) \ {2, 3, 14, 15}

\* C1: for a stroke of any length the call returns, without failing, a vector
\* of exactly 1980 entries laid out as the histograms in the fixed order and
\* sizes; a histogram of empty data is all zeros and keeps its size.
C1_FeatureVectorLayout ==
    s_result.called =>
        /\ ~s_result.err
        /\ Len(s_result.v) = 1980
        /\ SumSeq(BlockSizes) = 1980
        /\ \A b \in 1..21 :
              LET pts == BlockPoints(Len(s_X))[b]
                  blk == Block(s_result.v, b)
              IN  /\ pts = 0 => blk = Zeros(BlockSizes[b])
                  /\ (pts > 0 /\ b \in NeverOutOfRange) => SumSeq(blk) > 0
                  /\ \A j \in 1..BlockSizes[b] : blk[j] >= 0

\* A two-point stroke was processed: its angle histogram is populated and every
\* histogram over second derivatives is a zero block.
C1_Witness ==
    /\ s_result.called /\ Len(s_X) = 2
    /\ Len(s_result.v) = 1980
    /\ SumSeq(Block(s_result.v, 1)) = SCALE
    /\ Block(s_result.v, 3) = Zeros(400)
    /\ Block(s_result.v, 5) = Zeros(10)

-----------------------------------------------------------------------------
(* TemplateGenerator.generate_template and Matcher.verify_signature *)

\* numpy's result of a division by zero, and of arithmetic on such a result
\* (inf or nan, with a warning and no exception)
NonFinite == 0 - 2000000000

Finite(a) == a # NonFinite

\* product and quotient of two fixed-point reals
FxMul(a, b) == (a * b) \div SCALE

np_divide(a, b) ==
    IF b = 0 \/ ~Finite(a) THEN NonFinite
    ELSE IF b > 0 THEN (a * SCALE) \div b
    ELSE 0 - ((a * SCALE) \div (0 - b))

\* np.mean over a column that may hold non-finite entries
mean_axis0(col) ==
    IF \E r \in 1..Len(col) : ~Finite(col[r]) THEN NonFinite ELSE np_mean(col)

EpsIndexThreshold == 100
EpsLow  == (2 * SCALE) \div 1000
EpsHigh == (8 * SCALE) \div 10

epsilon_inclusive(idx) == IF idx <= EpsIndexThreshold THEN EpsLow ELSE EpsHigh

\* line 32: np.where(np.arange(len(q)) < 100, 0.002, 0.8), idx counted from 0
epsilon(idx) == IF idx < EpsIndexThreshold THEN EpsLow ELSE EpsHigh

\* enrolled[:, j]
column(enrolled, j) == [r \in 1..Len(enrolled) |-> enrolled[r][j]]

\* lines 25-33: q = beta * sigma + epsilon
quantization_steps(b, enrolled) ==
    [j \in 1..Len(enrolled[1]) |->
        FxMul(b, np_std(column(enrolled, j))) + epsilon(j - 1)]

\* lines 36-37: the mean over the enrollment of enrolled / q
template_of(enrolled, qq) ==
    [j \in 1..Len(enrolled[1]) |->
        mean_axis0([r \in 1..Len(enrolled) |-> np_divide(enrolled[r][j], qq[j])])]

\* In the result, enrolled_features is the caller's list as the call leaves it:
\* line 21 copies it into a new array and nothing writes to the list.
generate_template(b, enrolled_feats) ==
    IF enrolled_feats = <<>>
    THEN \* np.mean of an empty array is a scalar nan; len(q) raises TypeError
         [err |-> TRUE, template |-> <<>>, q |-> <<>>,
          enrolled_features |-> enrolled_feats]
    ELSE CHOOSE res \in
            {[err |-> FALSE, template |-> template_of(enrolled_feats, qq), q |-> qq,
              enrolled_features |-> enrolled_feats] :
                 qq \in {quantization_steps(b, enrolled_feats)}} : TRUE

\* numpy broadcasting of two 1-D shapes
broadcastable(n, m) == n = m \/ n = 1 \/ m = 1
broadcast_len(n, m) == IF n = 1 THEN m ELSE n
broadcast_get(a, j) == IF Len(a) = 1 THEN a[1] ELSE a[j]

abs_diff_signed(a, t) ==
    IF ~Finite(a) \/ ~Finite(t) THEN NonFinite ELSE a - t

\* np.abs(a - t)
abs_diff(a, t) ==
    IF ~Finite(a) \/ ~Finite(t) THEN NonFinite ELSE Abs(a - t)

np_sum(s) ==
    CHOOSE total \in
        {IF \E j \in 1..Len(v) : ~Finite(v[j]) THEN NonFinite ELSE SumSeq(v) :
            v \in {s}} : TRUE

test_after_inplace_divide(test_feat, qq) ==
    IF broadcastable(Len(test_feat), Len(qq)) /\ Len(test_feat) = Len(qq)
    THEN [j \in 1..Len(test_feat) |-> np_divide(test_feat[j], qq[j])]
    ELSE test_feat

\* The caller's test vector as line 18 leaves it: test_feature / q allocates a
\* new array.
test_after_divide(test_feat, qq) == test_feat

\* In the result, test_feature, template and q are the caller's arrays as the
\* call leaves them.
verify_signature(test_feat, tmpl, qq) ==
    LET n1 == broadcast_len(Len(test_feat), Len(qq))
        n2 == broadcast_len(n1, Len(tmpl))
        quantized_test(j) == np_divide(broadcast_get(test_feat, j),
                                       broadcast_get(qq, j))
        diff == [j \in 1..n2 |->
                    abs_diff(quantized_test(IF n1 = 1 THEN 1 ELSE j),
                             broadcast_get(tmpl, j))]
        after == [test_feature |-> test_after_divide(test_feat, qq),
                  template |-> tmpl, q |-> qq]
    IN  IF ~broadcastable(Len(test_feat), Len(qq)) \/ ~broadcastable(n1, Len(tmpl))
        THEN \* ValueError: operands could not be broadcast together
             [err |-> TRUE, score |-> 0] @@ after
        ELSE [err |-> FALSE, score |-> np_sum(diff)] @@ after

-----------------------------------------------------------------------------
(* A TemplateGenerator and the Matcher in use: vectors are enrolled, the       *)
(* template is generated once, test vectors are then scored in any order.      *)

\* beta: -0.8, 0 and the 1.5 of main() and of the default argument
Betas == {0 - ((8 * SCALE) \div 10), 0, (3 * SCALE) \div 2}

\* Feature vectors span the index at which epsilon changes.
VecLens == {2, EpsIndexThreshold + 1}
TestLens == {0, 1, 2, EpsIndexThreshold + 1}
EnrollVals == {Fx(0), Fx(2)}
TestVals == {Fx(1) \div 2, Fx(2)}

\* the vector a b a b ... of length n
vec(a, b, n) == [j \in 1..n |-> IF j % 2 = 1 THEN a ELSE b]

InitObj ==
    /\ beta \in Betas
    /\ enrolled_features = <<>> /\ template = <<>> /\ q = <<>>
    /\ returned = NotGenerated /\ test_feature = <<>> /\ call = NoCall
    /\ DerivIdle /\ HistIdle /\ SigIdle /\ MainIdle

Enroll ==
    /\ ~returned.called
    /\ Len(enrolled_features) < MaxEnroll
    /\ \E n \in VecLens, a \in EnrollVals, b \in EnrollVals :
          /\ enrolled_features # <<>> => n = Len(enrolled_features[1])
          /\ enrolled_features' = Append(enrolled_features, vec(a, b, n))
    /\ UNCHANGED <<beta, template, q, returned, test_feature, call>>
    /\ UNCHANGED <<derivVars, histVars, sigVars, mainVars>>

Generate ==
    /\ ~returned.called
    /\ \E r \in {generate_template(beta, enrolled_features)} :
           /\ returned' = [called |-> TRUE, err |-> r.err,
                           template |-> r.template, q |-> r.q]
           /\ enrolled_features' = r.enrolled_features
           /\ IF r.err THEN UNCHANGED <<template, q>>
              ELSE template' = r.template /\ q' = r.q
    /\ UNCHANGED <<beta, test_feature, call>>
    /\ UNCHANGED <<derivVars, histVars, sigVars, mainVars>>

Verify ==
    /\ returned.called /\ ~returned.err
    /\ \E n \in TestLens, a \in TestVals, b \in TestVals :
          \E t \in {vec(a, b, n)} :
          \E r \in {verify_signature(t, template, q)} :
              /\ call' = [op |-> "verify", err |-> r.err, score |-> r.score,
                          a_test |-> t, a_template |-> template, a_q |-> q]
              /\ test_feature' = r.test_feature
              /\ template' = r.template
              /\ q' = r.q
    /\ UNCHANGED <<beta, enrolled_features, returned>>
    /\ UNCHANGED <<derivVars, histVars, sigVars, mainVars>>

NextObj == Enroll \/ Generate \/ Verify

SpecObj == InitObj /\ [][NextObj]_vars

-----------------------------------------------------------------------------
(* Properties of generate_template and verify_signature *)

Generated == returned.called /\ ~returned.err

\* epsilon as stated: 0.002 below index 100 (counted from 0), 0.8 from 100 on
StatedEps(j) == IF j - 1 < 100 THEN (2 * SCALE) \div 1000 ELSE (8 * SCALE) \div 10

\* the mean squared deviation of a column from its mean
MeanSqDev(col) ==
    LET mu == SumSeq(col) \div Len(col)
    IN  SumSeq([r \in 1..Len(col) |-> (col[r] - mu) * (col[r] - mu)]) \div Len(col)

\* s is the population standard deviation of col, rounded down
IsPopStd(s, col) ==
    /\ s >= 0
    /\ s * s <= MeanSqDev(col)
    /\ MeanSqDev(col) < (s + 1) * (s + 1)

Identical(ef) == ef # <<>> /\ \A r \in 1..Len(ef) : ef[r] = ef[1]

AllFinite(v) == \A j \in 1..Len(v) : Finite(v[j])

C4_QNeverZero ==
    Generated => \A j \in 1..Len(returned.q) : returned.q[j] # 0

\* C5 as stated: generate_template on an empty enrollment list fails, and
\* verify_signature on a test vector of another length than q fails.
C5_FatalConditionsFail ==
    /\ (returned.called /\ enrolled_features = <<>>) => returned.err
    /\ (call.op = "verify" /\ Len(call.a_test) # Len(call.a_q)) => call.err

\* C9: generate_template leaves the enrollment vectors as they were,
\* verify_signature leaves its test vector, template and q as they were, and
\* from the generation on template and q are the values that were returned.
C9_NoInPlaceChange ==
    [][/\ (returned'.called /\ ~returned.called) =>
             enrolled_features' = enrolled_features
       /\ (returned'.called /\ ~returned'.err) =>
             template' = returned'.template /\ q' = returned'.q
       /\ returned.called => returned' = returned
       /\ (call'.op = "verify" /\ call' # call) =>
             /\ test_feature' = call'.a_test
             /\ template' = call'.a_template /\ template' = template
             /\ q' = call'.a_q /\ q' = q]_vars

\* After a template was generated from two vectors, a vector of the same
\* length was scored at a non-zero distance, and the caller's arrays are
\* as before the calls.
C9_Witness ==
    /\ Generated /\ Len(enrolled_features) = 2
    /\ call.op = "verify" /\ ~call.err /\ call.score > 0
    /\ Len(call.a_test) = 101 /\ call.a_test[1] # 0
    /\ test_feature = call.a_test
    /\ template = returned.template /\ q = returned.q

-----------------------------------------------------------------------------
(* SignatureReader and main() *)

GenuineEnd == 20
ForgedEnd == 40
EnrollLimit == 20
GenuineTests == 20
ForgedTests == 20

\* the USER1_ files of the data directory, sorted by signature number
sorted_files(n) == [k \in 1..n |-> k]

\* a[lo:hi] of Python, for 0 <= lo <= hi
Slice(a, lo, hi) == SubSeq(a, Min2(lo, Len(a)) + 1, Min2(hi, Len(a)))

\* files[:20] if genuine else files[20:40]
get_user_files(n, genuine) ==
    IF genuine THEN Slice(sorted_files(n), 0, GenuineEnd)
    ELSE Slice(sorted_files(n), GenuineEnd, ForgedEnd)

\* The stroke sample a file holds; the contents vary with the file and the data set.
read_signature(ds, file) ==
    LET n == (file + ds) % (MaxPoints + 1)
    IN  [X |-> IF file % 2 = 1 THEN Alternating(n) ELSE Ramp(n),
         Y |-> IF ds = 0 THEN Ramp(n) ELSE Alternating(n),
         P |-> IF file % 3 = 0 THEN Ramp(n) ELSE Alternating(n)]

features_of(ds, file) ==
    LET sig == read_signature(ds, file)
    IN  process_signature(sig.X, sig.Y, sig.P)

enrollment_files_short(n) == Slice(get_user_files(n, TRUE), 0, EnrollLimit - 1)

\* line 29: enrolled_files[:20]
enrollment_files(n) == Slice(get_user_files(n, TRUE), 0, EnrollLimit)

FileCounts == {0, 1, 19, 20, 39, 40, 41}

InitMain ==
    /\ pc = "enroll" /\ i = 0 /\ log = <<>>
    /\ n_files \in FileCounts
    /\ dataset \in {0, 1}
    /\ beta = (3 * SCALE) \div 2
    /\ enrolled_features = <<>> /\ template = <<>> /\ q = <<>>
    /\ returned = NotGenerated /\ test_feature = <<>> /\ call = NoCall
    /\ DerivIdle /\ HistIdle /\ SigIdle

Event(op, file) == [op |-> op, file |-> file]

\* lines 29-33: one pass of the enrollment loop
EnrollFile ==
    /\ pc = "enroll" /\ i < Len(enrollment_files(n_files))
    /\ \E file \in {enrollment_files(n_files)[i + 1]} :
       \E features \in {features_of(dataset, file)} :
          /\ ~features.err
          /\ enrolled_features' = Append(enrolled_features, features.v)
          /\ log' = Append(log, Event("enroll", file))
    /\ i' = i + 1
    /\ UNCHANGED <<pc, n_files, dataset, beta, template, q, returned, test_feature, call>>
    /\ UNCHANGED <<derivVars, histVars, sigVars>>

\* line 36: template, q = template_gen.generate_template(enrolled_features)
GenerateTemplate ==
    /\ pc = "enroll" /\ i = Len(enrollment_files(n_files))
    /\ \E r \in {generate_template(beta, enrolled_features)} :
          /\ returned' = [called |-> TRUE, err |-> r.err,
                          template |-> r.template, q |-> r.q]
          /\ enrolled_features' = r.enrolled_features
          /\ IF r.err THEN pc' = "failed" /\ UNCHANGED <<template, q>>
             ELSE pc' = "genuine" /\ template' = r.template /\ q' = r.q
    /\ log' = Append(log, Event("generate", 0))
    /\ i' = 0
    /\ UNCHANGED <<n_files, dataset, beta, test_feature, call>>
    /\ UNCHANGED <<derivVars, histVars, sigVars>>

\* The body of a verification loop, lines 44-50 and 55-61, on test_file.
VerifyFile(kind, test_file) ==
    \E features \in {features_of(dataset, test_file)} :
    \E r \in {verify_signature(features.v, template, q)} :
       /\ ~features.err
       /\ call' = [op |-> "verify", err |-> r.err, score |-> r.score,
                   a_test |-> features.v, a_template |-> template, a_q |-> q]
       /\ test_feature' = r.test_feature
       /\ template' = r.template
       /\ q' = r.q
       /\ log' = Append(log, Event(kind, test_file))
       /\ pc' = IF r.err THEN "failed" ELSE pc
       /\ i' = i + 1
       /\ UNCHANGED <<n_files, dataset, beta, enrolled_features, returned>>
       /\ UNCHANGED <<derivVars, histVars, sigVars>>

\* lines 43-50: test_file = enrolled_files[i]
VerifyGenuine ==
    /\ pc = "genuine" /\ i < GenuineTests
    /\ i < Len(get_user_files(n_files, TRUE))
    /\ VerifyFile("genuine", get_user_files(n_files, TRUE)[i + 1])

\* line 53, after the genuine loop
ListForged ==
    /\ pc = "genuine" /\ i = GenuineTests
    /\ pc' = "forged" /\ i' = 0
    /\ UNCHANGED <<n_files, dataset, log, objVars, derivVars, histVars, sigVars>>

\* lines 54-61: test_file = forged_files[i]
VerifyForged ==
    /\ pc = "forged" /\ i < ForgedTests
    /\ i < Len(get_user_files(n_files, FALSE))
    /\ VerifyFile("forged", get_user_files(n_files, FALSE)[i + 1])

\* enrolled_files[i] or forged_files[i] past the end of the list: IndexError
IndexError ==
    /\ \/ pc = "genuine" /\ i < GenuineTests
          /\ i >= Len(get_user_files(n_files, TRUE))
       \/ pc = "forged" /\ i < ForgedTests
          /\ i >= Len(get_user_files(n_files, FALSE))
    /\ pc' = "failed"
    /\ UNCHANGED <<n_files, dataset, i, log, objVars, derivVars, histVars, sigVars>>

Finish ==
    /\ pc = "forged" /\ i = ForgedTests
    /\ pc' = "done"
    /\ UNCHANGED <<n_files, dataset, i, log, objVars, derivVars, histVars, sigVars>>

NextMain ==
    \/ EnrollFile \/ GenerateTemplate \/ VerifyGenuine \/ ListForged
    \/ VerifyForged \/ IndexError \/ Finish

SpecMain == InitMain /\ [][NextMain]_vars

-----------------------------------------------------------------------------
(* Properties of main() *)

Positions(op) == {k \in 1..Len(log) : log[k].op = op}

\* the enrollment signatures: the first 20 (or all, if fewer) USER1_ files
EnrollmentSignatures == [k \in 1..Min2(n_files, 20) |-> k]

\* C8: generate_template is invoked at most once, and exactly once in a run
\* that reaches verification; only after every enrollment signature was
\* extracted and appended, in order; no verify_signature call precedes its
\* return; every verify_signature call is given the pair it returned.
C8_SingleBarrier ==
    /\ Cardinality(Positions("generate")) <= 1
    /\ pc \in {"genuine", "forged", "done"} =>
          Cardinality(Positions("generate")) = 1 /\ Generated
    /\ \A g \in Positions("generate") :
          /\ g = Len(EnrollmentSignatures) + 1
          /\ \A k \in 1..(g - 1) :
                log[k] = Event("enroll", EnrollmentSignatures[k])
          /\ Len(enrolled_features) = Len(EnrollmentSignatures)
          /\ returned.called
    /\ \A k \in Positions("genuine") \cup Positions("forged") :
          /\ \E g \in Positions("generate") : g < k
          /\ Generated
    /\ call.op = "verify" =>
          /\ Generated
          /\ call.a_template = returned.template
          /\ call.a_q = returned.q

\* A complete run: 20 files enrolled, one template generated, 20 genuine and
\* 20 forged signatures scored against it.
C8_Witness ==
    /\ pc = "done" /\ n_files = 40
    /\ Cardinality(Positions("enroll")) = 20
    /\ Positions("generate") = {21}
    /\ Cardinality(Positions("genuine")) = 20
    /\ Cardinality(Positions("forged")) = 20
    /\ call.op = "verify" /\ call.a_q = returned.q

\* C10 as stated: no signature file is both enrolled and scored as a genuine
\* test sample.
C10_GenuineTestsNotEnrolled ==
    \A k \in Positions("genuine") :
        \A m \in Positions("enroll") : log[m].file # log[k].file

====
